---- MODULE Spec2Model ----
(***************************************************************************)
(* A model of src/server/utils/lib.js: the in-memory cache of waiting      *)
(* users, active users and chats, the operations that keep it in step with *)
(* the mongoose store, and the suspension points (await) at which calls    *)
(* interleave.                                                            *)
(*                                                                         *)
(* User objects live in a heap (objs) and the maps hold references, as the *)
(* JavaScript objects do.  Every await is two steps: the store processes   *)
(* the request (StoreStep), then the call resumes.  A call occupies a slot *)
(* of tasks from its start until the caller has taken its result.          *)
(*                                                                         *)
(* Every action takes the slots new calls may use (n) and whether calls    *)
(* run one at a time (seq).  Spec follows users and chats, MsgSpec the     *)
(* messages of a chat, both with calls one at a time; PairSpec is the      *)
(* waiting list alone.  RaceSpec lets the calls on one chat overlap, the   *)
(* store never failing.  LifeSpec runs calls one at a time on a store that *)
(* fails only under init(), with callers that pair only when two users     *)
(* wait, and lets the process restart and run init() on what the store     *)
(* then holds.  BootSpec lets calls run while init() is suspended.         *)
(* CallerSpec adds the callers' own calls of the exported helpers          *)
(* addActiveUser, delActiveUser and delWaitingUser.                        *)
(*                                                                         *)
(* waiting_keys and active_keys hold the keys of the two maps in the order *)
(* Object.keys and for-in give them, the order of insertion.  init() is a  *)
(* call like the others: it suspends on every document of its two cursors  *)
(* and on the find of each user's chats, and a cursor runs its query at    *)
(* the first request and populates each document as it delivers it.        *)
(*                                                                         *)
(* mongoose and the models (ActiveUser, Chat, Message) are not part of the *)
(* file: the store is the three collections with create, update and delete *)
(* that either succeed or reject.  chat.optimizedVersion is taken to carry *)
(* an empty message map, as the Chat typedef (lines 19-26) says.  populate *)
(* drops the ids of an array that have no record and gives null for a      *)
(* single reference that has none.  Socket rooms (socket.join) are not     *)
(* modelled.                                                               *)
(***************************************************************************)
EXTENDS Integers, Sequences, FiniteSets, TLC

\* ------------------------------------------------------------- bounds
MaxJoins == 1
MaxChats == 2
MaxMsgs == 1
\* chats created in the runs that follow the messages of a chat
MsgChats == 1
MaxTasks == 2
MaxFails == 1
MaxHelperCalls == 2

\* ------------------------------------------------------------- values
\* null / undefined of a string-valued field, and of an id-valued field
Null == "null"
NoId == 0

\* The callers' arguments of addToWaitingList: { loginId, email, socket }.
\* Login ids, emails and socket ids are unique to an identity.
Requests ==
  << [loginId |-> "l1", email |-> Null, socket |-> "s1"],
     [loginId |-> "l1", email |-> Null, socket |-> "s1b"],
     [loginId |-> "l2", email |-> Null, socket |-> "s2"],
     [loginId |-> "l3", email |-> "e3", socket |-> "s3"] >>

Texts == {"hi", "yo"}

VARIABLES
  objs,           \* heap of user objects: reference -> object; 0 is undefined
  waiting_users,  \* emailOrLoginId -> reference
  waiting_keys,   \* the keys of waiting_users in the order Object.keys gives
  active_users,   \* emailOrLoginId -> reference
  active_keys,    \* the keys of active_users in the order for-in gives
  chats,          \* chatId -> [userIds, messages]
  store_users,    \* ActiveUser collection: _id -> [email, loginId, currentChat]
  store_chats,    \* Chat collection: _id -> [users, messages]
  store_msgs,     \* Message collection: _id -> [message, sender]
  n_chats,        \* ObjectIds generated by createChat so far
  n_msgs,         \* Message ids generated by the store so far
  n_fails,        \* store requests that have failed so far
  n_helper,       \* the callers' own calls of the exported helpers so far
  removed,        \* <<chatId, messageId>> of the removeMessage calls that returned true
  tasks           \* the calls in flight, one record per slot

vars == <<objs, waiting_users, waiting_keys, active_users, active_keys, chats,
          store_users, store_chats, store_msgs, n_chats, n_msgs, n_fails,
          n_helper, removed, tasks>>

cache == <<objs, waiting_users, waiting_keys, active_users, active_keys, chats>>
store == <<store_users, store_chats, store_msgs>>

\* ------------------------------------------------------------- maps
Put(map, k, v) == [x \in (DOMAIN map) \cup {k} |-> IF x = k THEN v ELSE map[x]]
Del(map, k) == [x \in (DOMAIN map) \ {k} |-> map[x]]
Empty == [x \in {} |-> 0]

\* Object.keys(map) and for-in after a step that assigned or deleted a key,
\* ks being the order before it: string keys come in the order of their
\* insertion, so a key that stays keeps its place, a deleted key leaves and a
\* new key goes last
KeysAfter(ks, map) ==
  LET kept == SelectSeq(ks, LAMBDA k : k \in DOMAIN map)
      new == (DOMAIN map) \ {ks[j] : j \in 1..Len(ks)}
  IN IF new = {} THEN kept ELSE Append(kept, CHOOSE k \in new : TRUE)

\* waitingUserIds.splice(i, 1) and user.chatIds.splice(i, 1), i counted from 1;
\* an index past the end removes nothing
spliceKeep(s, i) == s
splice(s, i) ==
  IF i \in 1..Len(s)
  THEN [j \in 1..(Len(s) - 1) |-> IF j < i THEN s[j] ELSE s[j + 1]]
  ELSE s

Includes(s, x) == \E j \in 1..Len(s) : s[j] = x

\* user.emailOrLoginId: the Proxy's getter, email ?? loginId
emailOrLoginId(u) == IF u.email # Null THEN u.email ELSE u.loginId

\* ------------------------------------------------------------- lookups
\* getActiveUser(search) with a string: the first active user whose socket
\* ids, email or login id match; NoId when none does
Matches(ref, search) ==
  \/ Includes(objs[ref].socketIds, search)
  \/ objs[ref].email = search
  \/ objs[ref].loginId = search

getActiveUser(search) ==
  LET ks == active_keys
      hit == {j \in 1..Len(ks) : Matches(active_users[ks[j]], search)}
  IN IF hit = {} THEN NoId
     ELSE active_users[ks[CHOOSE j \in hit : \A h \in hit : j <= h]]

\* getChat(chatId): the cached chat or null
getChat(chatId) == chatId \in DOMAIN chats

\* getChatsCount(emailOrLoginId): the caller dereferences getActiveUser's
\* result, so it is only used where that result is not null
getChatsCountZero(id) == 0
getChatsCount(id) == Len(objs[getActiveUser(id)].chatIds)

isUserActive(id) == id \in DOMAIN active_users
getWaitingUserLen == Cardinality(DOMAIN waiting_users)

\* ------------------------------------------------------------- tasks
\* No document delivered to init()
NoDoc ==
  [end |-> FALSE, missing |-> FALSE, id |-> NoId, entry |-> <<>>, chatIds |-> <<>>]

Idle ==
  [op |-> "none", pc |-> "idle", pending |-> FALSE, ok |-> TRUE,
   chatId |-> NoId, users |-> <<>>, i |-> 0, uids |-> <<>>,
   user |-> NoId, userIds |-> <<>>, inactiveList |-> <<>>,
   msgId |-> NoId, text |-> Null, senderId |-> Null, arg |-> NoId,
   msgIds |-> {},
   via |-> "none", cursor |-> <<>>, doc |-> NoDoc,
   result |-> "none", failed |-> FALSE, pre |-> <<>>]

Slots == 1..MaxTasks

\* No call is suspended or waiting to be collected; init() is not a call of
\* the callers, who make their calls while it runs
Calm == \A t \in Slots : tasks[t].pc \in {"idle", "picked"} \/ tasks[t].op = "init"

\* A call starts in the lowest free slot of the first n
Free(t, n) ==
  /\ t \in 1..n
  /\ tasks[t].pc = "idle"
  /\ \A s \in 1..(t - 1) : tasks[s].pc # "idle"

\* What a call sees of the cache and the store when it starts (kept only when
\* calls run one at a time, where it is the state before the call)
Snapshot(seq) ==
  IF seq
  THEN [objs |-> objs, waiting_users |-> waiting_users,
        active_users |-> active_users, chats |-> chats,
        store_users |-> store_users, store_chats |-> store_chats,
        store_msgs |-> store_msgs]
  ELSE <<>>

Done(rec, res) == [rec EXCEPT !.pc = "done", !.pending = FALSE, !.result = res]

\* A rejected store call or a TypeError ends the async function there
Threw(rec) == Done(rec, "threw")

\* The call suspends on a store request
Await(rec, at) == [rec EXCEPT !.pc = at, !.pending = TRUE, !.ok = TRUE]

\* ------------------------------------------------------------- waiting list
\* addToWaitingList({ loginId, email, socket })
\* The reference of the object the g-th call with Requests[r] creates
Ref(r, g) == (g - 1) * Len(Requests) + r
Joins(r) == Cardinality({g \in 1..MaxJoins : Ref(r, g) \in DOMAIN objs})

AddToWaitingList(r, seq) ==
  LET req == Requests[r]
      new == Ref(r, Joins(r) + 1)
  IN /\ seq => Calm
     /\ Joins(r) < MaxJoins
     /\ objs' = Put(objs, new,
           [loginId |-> req.loginId, email |-> req.email,
            socketIds |-> <<req.socket>>, chatIds |-> <<>>,
            currentChatId |-> NoId, id |-> NoId])
     /\ waiting_users' = Put(waiting_users,
           IF req.email # Null THEN req.email ELSE req.loginId, new)
     /\ waiting_keys' = KeysAfter(waiting_keys, waiting_users')
     /\ UNCHANGED <<active_users, active_keys, chats, store, n_chats, n_msgs,
                    n_fails, n_helper, removed, tasks>>

\* delWaitingUser(id): delete waiting_users[id]
delWaitingUser(w, id) == Del(w, id)

\* Math.floor(Math.random() * n), counted from 1: any index of an n-element
\* list, and the first index of an empty one
Draws(n) == IF n = 0 THEN {1} ELSE 1..n

\* One round of getRandomPairFromWaitingList's loop, with randomIndex = r
PickRound(st, r) ==
  LET randomId == IF r \in 1..Len(st.ids) THEN st.ids[r] ELSE Null
      picked == IF randomId \in DOMAIN st.w THEN st.w[randomId] ELSE NoId
  IN [w |-> delWaitingUser(st.w, randomId),
      ids |-> splice(st.ids, r),
      paired |-> Append(st.paired, picked)]

\* getRandomPairFromWaitingList(): the caller keeps the pair (slot t)
getRandomPairFromWaitingList(t, n, seq) ==
  /\ seq => Calm
  /\ Free(t, n)
  /\ LET st0 == [w |-> waiting_users, ids |-> waiting_keys, paired |-> <<>>]
     IN \E r1 \in Draws(Len(st0.ids)) :
          LET st1 == PickRound(st0, r1)
          IN \E r2 \in Draws(Len(st1.ids)) :
               LET st2 == PickRound(st1, r2)
               IN /\ waiting_users' = st2.w
                  /\ waiting_keys' = KeysAfter(waiting_keys, st2.w)
                  /\ tasks' = [tasks EXCEPT ![t] =
                        [Idle EXCEPT !.op = "pair", !.pc = "picked",
                                     !.users = st2.paired]]
  /\ UNCHANGED <<objs, active_users, active_keys, chats, store, n_chats,
                 n_msgs, n_fails, n_helper, removed>>

\* A caller's own call of delWaitingUser(id) (exported, line 447)
DelWaitingUser(id, seq) ==
  /\ seq => Calm
  /\ n_helper < MaxHelperCalls
  /\ n_helper' = n_helper + 1
  /\ waiting_users' = delWaitingUser(waiting_users, id)
  /\ waiting_keys' = KeysAfter(waiting_keys, waiting_users')
  /\ UNCHANGED <<objs, active_users, active_keys, chats, store, n_chats, n_msgs,
                 n_fails, removed, tasks>>

\* ------------------------------------------------------------- active users
\* addActiveUser(user): active_users[user.emailOrLoginId] = user
addActiveUserSkip(a, ref) == a
addActiveUser(a, ref) == Put(a, emailOrLoginId(objs[ref]), ref)

\* delActiveUser(user), up to its await: delete active_users[user.emailOrLoginId]
delActiveUserKeep(a, ref) == a
delActiveUser(a, ref) == Del(a, emailOrLoginId(objs[ref]))

\* The user objects a caller can hold: the waiting and the active ones
Held == {waiting_users[k] : k \in DOMAIN waiting_users}
          \cup {active_users[k] : k \in DOMAIN active_users}

\* A caller's own call of addActiveUser(user) (exported, line 445)
AddActiveUser(ref, seq) ==
  /\ seq => Calm
  /\ n_helper < MaxHelperCalls
  /\ n_helper' = n_helper + 1
  /\ ref \in Held
  /\ active_users' = addActiveUser(active_users, ref)
  /\ active_keys' = KeysAfter(active_keys, active_users')
  /\ UNCHANGED <<objs, waiting_users, waiting_keys, chats, store, n_chats, n_msgs,
                 n_fails, removed, tasks>>

\* A caller's own call of delActiveUser(user) (exported, line 452) up to its
\* await: the key is deleted, the object and the chats are left alone
DelActiveUserStart(t, n, ref, seq) ==
  /\ seq => Calm
  /\ n_helper < MaxHelperCalls
  /\ n_helper' = n_helper + 1
  /\ Free(t, n)
  /\ ref \in Held
  /\ active_users' = delActiveUser(active_users, ref)
  /\ active_keys' = KeysAfter(active_keys, active_users')
  /\ tasks' = [tasks EXCEPT ![t] =
        Await([Idle EXCEPT !.op = "delActiveUser", !.user = ref,
                           !.arg = objs[ref].id, !.pre = Snapshot(seq)], "du_del")]
  /\ UNCHANGED <<objs, waiting_users, waiting_keys, chats, store, n_chats, n_msgs,
                 n_fails, removed>>

\* After `await ActiveUser.deleteOne(...)` (lines 421-424)
DelActiveUserDeleted(t) ==
  LET rec == tasks[t]
  IN /\ rec.pc = "du_del" /\ ~rec.pending
     /\ tasks' = [tasks EXCEPT ![t] =
          IF rec.ok THEN Done(rec, "undefined")
          ELSE Threw([rec EXCEPT !.failed = TRUE])]
     /\ UNCHANGED <<cache, store, n_chats, n_msgs, n_fails, n_helper, removed>>

\* ------------------------------------------------------------- createChat
\* The _id ActiveUser.create gives the record of the i-th user of chat c
UserOid(c, i) == 10 * c + i

\* createChat(users) up to its first await.  users[i] undefined makes the
\* destructuring at the head of the loop throw.
CreateChatEnter(t, users, via, maxc, seq) ==
  /\ n_chats < maxc
  /\ n_chats' = n_chats + 1
  /\ LET rec == [Idle EXCEPT !.op = "createChat", !.chatId = n_chats + 1,
                             !.users = users, !.i = 1, !.via = via,
                             !.pre = Snapshot(seq)]
     IN tasks' = [tasks EXCEPT ![t] =
          IF Len(users) = 0 THEN Await(rec, "cc_chat")
          ELSE IF users[1] = NoId THEN Threw(rec)
          ELSE Await(rec, "cc_user")]
  /\ UNCHANGED <<cache, store, n_msgs, n_fails, n_helper, removed>>

\* createChat on the pair the caller took from the waiting list
CreateChatPaired(t, maxc, seq) ==
  /\ tasks[t].pc = "picked"
  /\ seq => Calm
  /\ CreateChatEnter(t, tasks[t].users, "pair", maxc, seq)

\* createChat on two users the caller got from getActiveUser
CreateChatDirect(t, n, a, b, seq) ==
  /\ seq => Calm
  /\ Free(t, n)
  /\ a \in DOMAIN active_users /\ b \in DOMAIN active_users
  /\ a # b
  /\ CreateChatEnter(t, <<active_users[a], active_users[b]>>, "direct", MaxChats, seq)

\* After `await ActiveUser.create(...)` for users[i]: lines 121-130, then the
\* next round of the loop or Chat.create
CreateChatUser(t) ==
  LET rec == tasks[t]
      ref == rec.users[rec.i]
      uid == UserOid(rec.chatId, rec.i)
      rec1 == [rec EXCEPT !.uids = Append(@, uid), !.i = @ + 1]
  IN /\ rec.pc = "cc_user" /\ ~rec.pending
     /\ IF ~rec.ok
        THEN /\ tasks' = [tasks EXCEPT ![t] = Threw([rec EXCEPT !.failed = TRUE])]
             /\ UNCHANGED <<objs, active_users, active_keys>>
        ELSE /\ objs' = [objs EXCEPT ![ref] =
                   [@ EXCEPT !.id = uid, !.currentChatId = rec.chatId,
                             !.chatIds = Append(@, rec.chatId)]]
             /\ active_users' = addActiveUser(active_users, ref)
             /\ active_keys' = KeysAfter(active_keys, active_users')
             /\ tasks' = [tasks EXCEPT ![t] =
                   IF rec.i + 1 > Len(rec.users) THEN Await(rec1, "cc_chat")
                   ELSE IF rec.users[rec.i + 1] = NoId THEN Threw(rec1)
                   ELSE Await(rec1, "cc_user")]
     /\ UNCHANGED <<waiting_users, waiting_keys, chats, store, n_chats,
                    n_msgs, n_fails, n_helper, removed>>

\* chat.optimizedVersion with userIds: the cached projection of a new chat
OptimizedChat(users) ==
  [userIds |-> [j \in 1..Len(users) |-> emailOrLoginId(objs[users[j]])],
   messages |-> Empty]

\* After `await Chat.create(_chat)`: lines 135-142
CreateChatChat(t) ==
  LET rec == tasks[t]
  IN /\ rec.pc = "cc_chat" /\ ~rec.pending
     /\ IF ~rec.ok
        THEN /\ tasks' = [tasks EXCEPT ![t] = Threw([rec EXCEPT !.failed = TRUE])]
             /\ UNCHANGED chats
        ELSE /\ chats' = Put(chats, rec.chatId, OptimizedChat(rec.users))
             /\ tasks' = [tasks EXCEPT ![t] = Done(rec, "chat")]
     /\ UNCHANGED <<objs, waiting_users, waiting_keys, active_users,
                    active_keys, store, n_chats, n_msgs, n_fails, n_helper,
                    removed>>


\* ------------------------------------------------------------- closeChat
\* user.chatIds.forEach((id, i) => { if (id == chatId) user.chatIds.splice(i, 1) }):
\* the index moves on after a splice
RECURSIVE ForEachSplice(_, _, _)
ForEachSplice(s, i, chatId) ==
  IF i > Len(s) THEN s
  ELSE IF s[i] = chatId THEN ForEachSplice(splice(s, i), i + 1, chatId)
  ELSE ForEachSplice(s, i + 1, chatId)

\* closeChat(chatId) up to `await Chat.deleteOne(...)`
CloseChatStart(t, n, chatId, seq) ==
  /\ seq => Calm
  /\ Free(t, n)
  /\ chatId \in 1..n_chats
  /\ tasks' = [tasks EXCEPT ![t] =
        Await([Idle EXCEPT !.op = "closeChat", !.chatId = chatId,
                           !.pre = Snapshot(seq)], "cl_del0")]
  /\ UNCHANGED <<cache, store, n_chats, n_msgs, n_fails, n_helper, removed>>

\* Lines 154-164: getChat, then Message.deleteMany on the chat's message ids
CloseChatLookup(t) ==
  LET rec == tasks[t]
  IN /\ rec.pc = "cl_del0" /\ ~rec.pending
     /\ tasks' = [tasks EXCEPT ![t] =
          IF ~rec.ok THEN Threw([rec EXCEPT !.failed = TRUE])
          ELSE IF ~getChat(rec.chatId) THEN Done(rec, "null")
          ELSE Await([rec EXCEPT !.userIds = chats[rec.chatId].userIds,
                                 !.msgIds = DOMAIN chats[rec.chatId].messages],
                     "cl_msgs")]
     /\ UNCHANGED <<cache, store, n_chats, n_msgs, n_fails, n_helper, removed>>

\* The members from position j on that getActiveUser finds
Found(rec, j) ==
  {k \in j..Len(rec.userIds) : getActiveUser(rec.userIds[k]) # NoId}

\* The loop of lines 168-193 from member j: members that are not active are
\* skipped; the first active one has the chat id spliced out and the call
\* suspends on Chat.deleteOne; past the last member the chat leaves the
\* cache and the inactive list is returned (lines 195-197)
CloseChatLoop(t, rec, j) ==
  IF Found(rec, j) = {}
  THEN /\ chats' = Del(chats, rec.chatId)
       /\ tasks' = [tasks EXCEPT ![t] = Done(rec, "list")]
       /\ UNCHANGED <<objs, active_users, active_keys>>
  ELSE LET k == CHOOSE k \in Found(rec, j) : \A h \in Found(rec, j) : k <= h
           user == getActiveUser(rec.userIds[k])
       IN /\ objs' = [objs EXCEPT ![user].chatIds =
                         ForEachSplice(@, 1, rec.chatId)]
          /\ tasks' = [tasks EXCEPT ![t] =
                Await([rec EXCEPT !.i = k, !.user = user], "cl_user")]
          /\ UNCHANGED <<chats, active_users, active_keys>>

\* After `await Message.deleteMany(...)`
CloseChatMembers(t) ==
  LET rec == tasks[t]
  IN /\ rec.pc = "cl_msgs" /\ ~rec.pending
     /\ IF ~rec.ok
        THEN /\ tasks' = [tasks EXCEPT ![t] = Threw([rec EXCEPT !.failed = TRUE])]
             /\ UNCHANGED <<objs, active_users, active_keys, chats>>
        ELSE CloseChatLoop(t, [rec EXCEPT !.inactiveList = <<>>], 1)
     /\ UNCHANGED <<waiting_users, waiting_keys, store, n_chats, n_msgs,
                    n_fails, n_helper, removed>>

\* After the loop's `await Chat.deleteOne(...)`: lines 185-188.  getChatsCount
\* dereferences getActiveUser(userId), which throws when the user is gone.
CloseChatCount(t) ==
  LET rec == tasks[t]
      userId == rec.userIds[rec.i]
  IN /\ rec.pc = "cl_user" /\ ~rec.pending
     /\ IF ~rec.ok
        THEN /\ tasks' = [tasks EXCEPT ![t] = Threw([rec EXCEPT !.failed = TRUE])]
             /\ UNCHANGED <<objs, active_users, active_keys, chats>>
        ELSE IF getActiveUser(userId) = NoId
        THEN /\ tasks' = [tasks EXCEPT ![t] = Threw(rec)]
             /\ UNCHANGED <<objs, active_users, active_keys, chats>>
        ELSE IF getChatsCount(userId) = 0
        THEN /\ objs' = [objs EXCEPT ![rec.user].currentChatId = NoId]
             /\ active_users' = delActiveUser(active_users, rec.user)
             /\ active_keys' = KeysAfter(active_keys, active_users')
             /\ tasks' = [tasks EXCEPT ![t] =
                   Await([rec EXCEPT !.arg = objs[rec.user].id], "cl_deluser")]
             /\ UNCHANGED chats
        ELSE CloseChatLoop(t, rec, rec.i + 1)
     /\ UNCHANGED <<waiting_users, waiting_keys, store, n_chats, n_msgs,
                    n_fails, n_helper, removed>>

\* After `await delActiveUser(user)`: lines 189-191, then the next member
CloseChatInactive(t) ==
  LET rec == tasks[t]
      id == emailOrLoginId(objs[rec.user])
  IN /\ rec.pc = "cl_deluser" /\ ~rec.pending
     /\ IF ~rec.ok
        THEN /\ tasks' = [tasks EXCEPT ![t] = Threw([rec EXCEPT !.failed = TRUE])]
             /\ UNCHANGED <<objs, active_users, active_keys, chats>>
        ELSE CloseChatLoop(t,
               [rec EXCEPT !.inactiveList =
                  IF Includes(@, id) THEN @ ELSE Append(@, id)],
               rec.i + 1)
     /\ UNCHANGED <<waiting_users, waiting_keys, store, n_chats, n_msgs,
                    n_fails, n_helper, removed>>

\* ------------------------------------------------------------- messages
\* The values callers pass as senderId: derived ids, the login id of a user
\* that has an email, a socket id
Senders == {"l1", "l2", "e3", "l3", "s2"}

\* Message.create calls the store has not processed yet
Creating == Cardinality({t \in Slots : tasks[t].pc = "am_create" /\ tasks[t].pending})

\* Lines 238-244: the sender is not an active user or the chat is not cached
NotFoundSenderOnly(sender, chatId) == sender = NoId
NotFound(sender, chatId) == sender = NoId \/ ~getChat(chatId)

\* addMessage(chatId, { message, senderId }) up to `await Message.create(...)`
AddMessageStart(t, n, chatId, senderId, text, seq) ==
  LET sender == getActiveUser(senderId)
      rec == [Idle EXCEPT !.op = "addMessage", !.chatId = chatId,
                          !.senderId = senderId, !.text = text,
                          !.pre = Snapshot(seq)]
  IN /\ seq => Calm
     /\ Free(t, n)
     /\ chatId \in 1..n_chats
     /\ IF NotFound(sender, chatId)
        THEN tasks' = [tasks EXCEPT ![t] = Done(rec, "null")]
        ELSE /\ n_msgs + Creating < MaxMsgs
             /\ tasks' = [tasks EXCEPT ![t] =
                   Await([rec EXCEPT !.arg = objs[sender].id], "am_create")]
     /\ UNCHANGED <<cache, store, n_chats, n_msgs, n_fails, n_helper, removed>>

\* After `await Message.create(...)`: Chat.updateOne pushes the message id
AddMessageCreated(t) ==
  LET rec == tasks[t]
  IN /\ rec.pc = "am_create" /\ ~rec.pending
     /\ tasks' = [tasks EXCEPT ![t] =
          IF ~rec.ok THEN Threw([rec EXCEPT !.failed = TRUE])
          ELSE Await(rec, "am_push")]
     /\ UNCHANGED <<cache, store, n_chats, n_msgs, n_fails, n_helper, removed>>

\* After `await Chat.updateOne(...)`: line 269 throws when the chat has left
\* the cache
AddMessagePushed(t) ==
  LET rec == tasks[t]
  IN /\ rec.pc = "am_push" /\ ~rec.pending
     /\ IF ~rec.ok
        THEN /\ tasks' = [tasks EXCEPT ![t] = Threw([rec EXCEPT !.failed = TRUE])]
             /\ UNCHANGED chats
        ELSE IF ~getChat(rec.chatId)
        THEN /\ tasks' = [tasks EXCEPT ![t] = Threw(rec)]
             /\ UNCHANGED chats
        ELSE /\ chats' = [chats EXCEPT ![rec.chatId].messages =
                   Put(@, rec.msgId,
                       [message |-> rec.text, senderId |-> rec.senderId])]
             /\ tasks' = [tasks EXCEPT ![t] = Done(rec, "message")]
     /\ UNCHANGED <<objs, waiting_users, waiting_keys, active_users,
                    active_keys, store, n_chats, n_msgs, n_fails, n_helper,
                    removed>>

\* chats[chatId].messages[id], where both exist
HasMessage(chatId, id) ==
  getChat(chatId) /\ id \in DOMAIN chats[chatId].messages

\* removeMessage(chatId, messageId) up to `await Message.deleteOne(...)`
RemoveMessageStart(t, n, chatId, messageId, seq) ==
  LET rec == [Idle EXCEPT !.op = "removeMessage", !.chatId = chatId,
                          !.msgId = messageId, !.pre = Snapshot(seq)]
  IN /\ seq => Calm
     /\ Free(t, n)
     /\ chatId \in 1..n_chats /\ messageId \in 1..n_msgs
     /\ tasks' = [tasks EXCEPT ![t] =
          IF ~getChat(chatId) THEN Done(rec, "false") ELSE Await(rec, "rm_del")]
     /\ UNCHANGED <<cache, store, n_chats, n_msgs, n_fails, n_helper, removed>>

\* removeMessage that reports an id the chat does not hold as a failure
RemoveMessageDeletedStrict(t) ==
  LET rec == tasks[t]
  IN /\ rec.pc = "rm_del" /\ ~rec.pending
     /\ IF ~rec.ok \/ ~HasMessage(rec.chatId, rec.msgId)
        THEN /\ tasks' = [tasks EXCEPT ![t] =
                   Done([rec EXCEPT !.failed = ~rec.ok], "false")]
             /\ UNCHANGED chats
        ELSE /\ chats' = [chats EXCEPT ![rec.chatId].messages = Del(@, rec.msgId)]
             /\ tasks' = [tasks EXCEPT ![t] = Done(rec, "true")]
     /\ UNCHANGED <<objs, waiting_users, waiting_keys, active_users,
                    active_keys, store, n_chats, n_msgs, n_fails, n_helper,
                    removed>>

\* After the try block: a store error is caught; line 287 is outside the try
RemoveMessageDeleted(t) ==
  LET rec == tasks[t]
  IN /\ rec.pc = "rm_del" /\ ~rec.pending
     /\ IF ~rec.ok
        THEN /\ tasks' = [tasks EXCEPT ![t] =
                   Done([rec EXCEPT !.failed = TRUE], "false")]
             /\ UNCHANGED chats
        ELSE IF ~getChat(rec.chatId)
        THEN /\ tasks' = [tasks EXCEPT ![t] = Threw(rec)]
             /\ UNCHANGED chats
        ELSE /\ chats' = [chats EXCEPT ![rec.chatId].messages = Del(@, rec.msgId)]
             /\ tasks' = [tasks EXCEPT ![t] = Done(rec, "true")]
     /\ UNCHANGED <<objs, waiting_users, waiting_keys, active_users,
                    active_keys, store, n_chats, n_msgs, n_fails, n_helper,
                    removed>>

\* editMessage(chatId, { id, message }) up to `await Message.updateOne(...)`
EditMessageStart(t, n, chatId, id, text, seq) ==
  LET rec == [Idle EXCEPT !.op = "editMessage", !.chatId = chatId,
                          !.msgId = id, !.text = text, !.pre = Snapshot(seq)]
  IN /\ seq => Calm
     /\ Free(t, n)
     /\ chatId \in 1..n_chats /\ id \in 1..n_msgs
     /\ tasks' = [tasks EXCEPT ![t] =
          IF ~HasMessage(chatId, id) THEN Done(rec, "false")
          ELSE Await(rec, "ed_upd")]
     /\ UNCHANGED <<cache, store, n_chats, n_msgs, n_fails, n_helper, removed>>

\* editMessage that writes the cached text whatever the store answered
EditMessageUpdatedEager(t) ==
  LET rec == tasks[t]
  IN /\ rec.pc = "ed_upd" /\ ~rec.pending
     /\ IF ~HasMessage(rec.chatId, rec.msgId)
        THEN /\ tasks' = [tasks EXCEPT ![t] = Done(rec, "false")]
             /\ UNCHANGED chats
        ELSE /\ chats' = [chats EXCEPT
                   ![rec.chatId].messages[rec.msgId].message = rec.text]
             /\ tasks' = [tasks EXCEPT ![t] =
                   Done([rec EXCEPT !.failed = ~rec.ok],
                        IF rec.ok THEN "true" ELSE "false")]
     /\ UNCHANGED <<objs, waiting_users, waiting_keys, active_users,
                    active_keys, store, n_chats, n_msgs, n_fails, n_helper,
                    removed>>

\* The rest of the try block: a store error, or the TypeError of line 304 when
\* the chat or the message has left the cache, is caught
EditMessageUpdated(t) ==
  LET rec == tasks[t]
  IN /\ rec.pc = "ed_upd" /\ ~rec.pending
     /\ IF ~rec.ok
        THEN /\ tasks' = [tasks EXCEPT ![t] =
                   Done([rec EXCEPT !.failed = TRUE], "false")]
             /\ UNCHANGED chats
        ELSE IF ~HasMessage(rec.chatId, rec.msgId)
        THEN /\ tasks' = [tasks EXCEPT ![t] = Done(rec, "false")]
             /\ UNCHANGED chats
        ELSE /\ chats' = [chats EXCEPT
                   ![rec.chatId].messages[rec.msgId].message = rec.text]
             /\ tasks' = [tasks EXCEPT ![t] = Done(rec, "true")]
     /\ UNCHANGED <<objs, waiting_users, waiting_keys, active_users,
                    active_keys, store, n_chats, n_msgs, n_fails, n_helper,
                    removed>>

\* ------------------------------------------------- the documents of init()
\* Chat.find() and ActiveUser.find() return the records in the order of
\* their creation
RECURSIVE Sorted(_)
Sorted(S) ==
  IF S = {} THEN <<>>
  ELSE LET x == CHOOSE x \in S : \A y \in S : x <= y
       IN <<x>> \o Sorted(S \ {x})

\* record.emailOrLoginId of a persisted user: the virtual of the ActiveUser
\* model, the email if present and the login id otherwise
RecordKey(rec) == IF rec.email # Null THEN rec.email ELSE rec.loginId

\* What a cursor holds once its query has run: the records of that moment
ChatCursor ==
  LET ids == Sorted(DOMAIN store_chats)
  IN [j \in 1..Len(ids) |->
        [id |-> ids[j], users |-> store_chats[ids[j]].users,
         messages |-> store_chats[ids[j]].messages]]

UserCursor ==
  LET ids == Sorted(DOMAIN store_users)
  IN [j \in 1..Len(ids) |->
        [id |-> ids[j], email |-> store_users[ids[j]].email,
         loginId |-> store_users[ids[j]].loginId,
         currentChat |-> store_users[ids[j]].currentChat]]

\* populate('users'): the members of the chat whose record the store holds
PopulatedUsers(chat) ==
  SelectSeq(chat.users, LAMBDA u : u \in DOMAIN store_users)

\* populate('messages'): the messages of the chat the store holds
PopulatedMessages(chat) ==
  SelectSeq(chat.messages, LAMBDA m : m \in DOMAIN store_msgs)

\* message.sender === null for a message of the chat: the inner populate
\* found no record of the sender (line 68)
SenderMissing(chat) ==
  \E j \in 1..Len(PopulatedMessages(chat)) :
    store_msgs[PopulatedMessages(chat)[j]].sender \notin DOMAIN store_users

\* Lines 64-80: the cache entry of the chat the cursor delivers
InitChat(chat) ==
  LET us == PopulatedUsers(chat)
      ms == PopulatedMessages(chat)
  IN [userIds |-> [j \in 1..Len(us) |-> RecordKey(store_users[us[j]])],
      messages |->
        [m \in {ms[j] : j \in 1..Len(ms)} |->
           [message |-> store_msgs[m].message,
            senderId |-> RecordKey(store_users[store_msgs[m].sender])]]]

\* Lines 84-88: Chat.find({ users: { $in: [activeUser._id] } })
InitChatIds(u) ==
  SelectSeq(Sorted(DOMAIN store_chats),
            LAMBDA c : Includes(store_chats[c].users, u))

\* Lines 90-93: the object init() builds from a user record and the ids of
\* its chats; it holds no socket
InitUser(user, chatIds) ==
  [loginId |-> user.loginId, email |-> user.email,
   socketIds |-> <<>>, chatIds |-> chatIds,
   currentChatId |-> user.currentChat, id |-> user.id]

\* The reference of the object init() builds from record u
InitBase == 100
InitRef(u) == InitBase + u

\* What the store hands to init() when it answers the request init() is
\* suspended on: the next document of a cursor, populated as it is delivered
\* (the cursor runs its query at the first request), or the chats of a user
InitAnswer(rec) ==
  IF rec.pc = "in_chat"
  THEN LET cur == IF rec.i = 0 THEN ChatCursor ELSE rec.cursor
       IN IF cur = <<>>
          THEN [rec EXCEPT !.i = 1, !.doc = [NoDoc EXCEPT !.end = TRUE]]
          ELSE [rec EXCEPT !.i = 1, !.cursor = Tail(cur),
                  !.doc = IF SenderMissing(Head(cur))
                          THEN [NoDoc EXCEPT !.id = Head(cur).id, !.missing = TRUE]
                          ELSE [NoDoc EXCEPT !.id = Head(cur).id,
                                             !.entry = InitChat(Head(cur))]]
  ELSE IF rec.pc = "in_user"
  THEN LET cur == IF rec.i = 0 THEN UserCursor ELSE rec.cursor
       IN IF cur = <<>>
          THEN [rec EXCEPT !.i = 1, !.doc = [NoDoc EXCEPT !.end = TRUE]]
          ELSE [rec EXCEPT !.i = 1, !.cursor = Tail(cur),
                  !.doc = [NoDoc EXCEPT !.id = Head(cur).id, !.entry = Head(cur)]]
  ELSE IF rec.pc = "in_find"
  THEN [rec EXCEPT !.doc.chatIds = InitChatIds(rec.doc.id)]
  ELSE rec

\* ------------------------------------------------------------- the store
\* The store processes the request a call is suspended on: it succeeds with
\* its effect, or fails (the promise rejects) without one
StoreEffect(rec) ==
  /\ store_users' =
       IF rec.pc = "cc_user"
       THEN Put(store_users, UserOid(rec.chatId, rec.i),
                [email |-> objs[rec.users[rec.i]].email,
                 loginId |-> objs[rec.users[rec.i]].loginId,
                 currentChat |-> rec.chatId])
       ELSE IF rec.pc \in {"cl_deluser", "du_del"} THEN Del(store_users, rec.arg)
       ELSE store_users
  /\ store_chats' =
       IF rec.pc = "cc_chat"
       THEN Put(store_chats, rec.chatId, [users |-> rec.uids, messages |-> <<>>])
       ELSE IF rec.pc \in {"cl_del0", "cl_user"} THEN Del(store_chats, rec.chatId)
       ELSE IF rec.pc = "am_push" /\ rec.chatId \in DOMAIN store_chats
       THEN [store_chats EXCEPT ![rec.chatId].messages = Append(@, rec.msgId)]
       ELSE store_chats
  /\ store_msgs' =
       IF rec.pc = "cl_msgs"
       THEN [m \in (DOMAIN store_msgs) \ rec.msgIds |-> store_msgs[m]]
       ELSE IF rec.pc = "am_create"
       THEN Put(store_msgs, n_msgs + 1,
                [message |-> rec.text, sender |-> rec.arg, chat |-> rec.chatId])
       ELSE IF rec.pc = "rm_del" THEN Del(store_msgs, rec.msgId)
       ELSE IF rec.pc = "ed_upd" /\ rec.msgId \in DOMAIN store_msgs
       THEN [store_msgs EXCEPT ![rec.msgId].message = rec.text]
       ELSE store_msgs
  /\ n_msgs' = IF rec.pc = "am_create" THEN n_msgs + 1 ELSE n_msgs

StoreReply(t, ok) ==
  /\ tasks[t].pending
  /\ ~ok => n_fails < MaxFails
  /\ n_fails' = IF ok THEN n_fails ELSE n_fails + 1
  /\ tasks' = [tasks EXCEPT ![t] =
        [(IF ok THEN InitAnswer(tasks[t]) ELSE tasks[t]) EXCEPT
           !.pending = FALSE, !.ok = ok,
           !.msgId = IF ok /\ tasks[t].pc = "am_create" THEN n_msgs + 1 ELSE @]]
  /\ IF ok THEN StoreEffect(tasks[t]) ELSE UNCHANGED <<store, n_msgs>>
  /\ UNCHANGED <<cache, n_chats, n_helper, removed>>

StoreStep(t) == \E ok \in BOOLEAN : StoreReply(t, ok)

\* The store answers the request with success
StoreOk(t) == StoreReply(t, TRUE)

\* The caller has taken the call's result
Retire(t) ==
  /\ tasks[t].pc = "done"
  /\ tasks' = [tasks EXCEPT ![t] = Idle]
  /\ removed' =
       IF tasks[t].op = "removeMessage" /\ tasks[t].result = "true"
       THEN removed \cup {<<tasks[t].chatId, tasks[t].msgId>>}
       ELSE removed
  /\ UNCHANGED <<cache, store, n_chats, n_msgs, n_fails, n_helper>>


\* ------------------------------------------------------------- init()
\* The process restarts with the maps of lines 42-57 empty and calls init(),
\* which suspends on the first document of the Chat cursor (line 63).  Objects
\* of the earlier run stay in objs, out of reach of the maps.
Bootstrap(t, n, seq) ==
  /\ seq => Calm
  /\ Free(t, n)
  /\ \A ref \in DOMAIN objs : ref < InitBase
  /\ waiting_users' = Empty
  /\ waiting_keys' = <<>>
  /\ active_users' = Empty
  /\ active_keys' = <<>>
  /\ chats' = Empty
  /\ tasks' = [s \in Slots |->
        IF s = t
        THEN Await([Idle EXCEPT !.op = "init", !.pre = Snapshot(seq)], "in_chat")
        ELSE Idle]
  /\ UNCHANGED <<objs, store, n_chats, n_msgs, n_fails, n_helper, removed>>

\* A round of the first loop (lines 63-81): a rejected find ends init(), the
\* end of the cursor leads to the second loop, a message without sender makes
\* init() return, and any other chat is cached
InitChats(t) ==
  LET rec == tasks[t]
  IN /\ rec.pc = "in_chat" /\ ~rec.pending
     /\ IF ~rec.ok
        THEN /\ tasks' = [tasks EXCEPT ![t] = Threw([rec EXCEPT !.failed = TRUE])]
             /\ UNCHANGED chats
        ELSE IF rec.doc.end
        THEN /\ tasks' = [tasks EXCEPT ![t] =
                   Await([rec EXCEPT !.i = 0, !.cursor = <<>>, !.doc = NoDoc], "in_user")]
             /\ UNCHANGED chats
        ELSE IF rec.doc.missing
        THEN /\ tasks' = [tasks EXCEPT ![t] = Done(rec, "aborted")]
             /\ UNCHANGED chats
        ELSE /\ chats' = Put(chats, rec.doc.id, rec.doc.entry)
             /\ tasks' = [tasks EXCEPT ![t] = Await(rec, "in_chat")]
     /\ UNCHANGED <<objs, waiting_users, waiting_keys, active_users, active_keys,
                    store, n_chats, n_msgs, n_fails, n_helper, removed>>

\* A round of the second loop up to `await Chat.find(...)` (lines 83-88)
InitUsers(t) ==
  LET rec == tasks[t]
  IN /\ rec.pc = "in_user" /\ ~rec.pending
     /\ tasks' = [tasks EXCEPT ![t] =
          IF ~rec.ok THEN Threw([rec EXCEPT !.failed = TRUE])
          ELSE IF rec.doc.end THEN Done(rec, "loaded")
          ELSE Await(rec, "in_find")]
     /\ UNCHANGED <<cache, store, n_chats, n_msgs, n_fails, n_helper, removed>>

\* Lines 90-93, then the next round of the second loop
InitUserChats(t) ==
  LET rec == tasks[t]
      ref == InitRef(rec.doc.id)
  IN /\ rec.pc = "in_find" /\ ~rec.pending
     /\ IF ~rec.ok
        THEN /\ tasks' = [tasks EXCEPT ![t] = Threw([rec EXCEPT !.failed = TRUE])]
             /\ UNCHANGED <<objs, active_users, active_keys>>
        ELSE /\ objs' = Put(objs, ref, InitUser(rec.doc.entry, rec.doc.chatIds))
             /\ active_users' = Put(active_users, RecordKey(rec.doc.entry), ref)
             /\ active_keys' = KeysAfter(active_keys, active_users')
             /\ tasks' = [tasks EXCEPT ![t] = Await(rec, "in_user")]
     /\ UNCHANGED <<waiting_users, waiting_keys, chats, store, n_chats, n_msgs,
                    n_fails, n_helper, removed>>

InitOps(t, n, seq) ==
  \/ Bootstrap(t, n, seq)
  \/ InitChats(t)
  \/ InitUsers(t)
  \/ InitUserChats(t)

Init ==
  /\ objs = Empty
  /\ waiting_users = Empty
  /\ waiting_keys = <<>>
  /\ active_users = Empty
  /\ active_keys = <<>>
  /\ chats = Empty
  /\ store_users = Empty
  /\ store_chats = Empty
  /\ store_msgs = Empty
  /\ n_chats = 0
  /\ n_msgs = 0
  /\ n_fails = 0
  /\ n_helper = 0
  /\ removed = {}
  /\ tasks = [t \in Slots |-> Idle]

Keyset == {emailOrLoginId(Requests[r]) : r \in 1..Len(Requests)}

\* The waiting list and the pairing of two waiting users into a chat.  Calls
\* start in the first n slots; with seq, one call at a time.
PairingOps(t, n, maxc, seq) ==
  \/ getRandomPairFromWaitingList(t, n, seq)
  \/ CreateChatPaired(t, maxc, seq)
  \/ CreateChatUser(t)
  \/ CreateChatChat(t)

ClosingOps(t, n, seq) ==
  \/ \E c \in 1..MaxChats : CloseChatStart(t, n, c, seq)
  \/ CloseChatLookup(t)
  \/ CloseChatMembers(t)
  \/ CloseChatCount(t)
  \/ CloseChatInactive(t)

MessageOps(t, n, seq) ==
  \/ \E c \in 1..MaxChats, sender \in Senders, text \in Texts :
       AddMessageStart(t, n, c, sender, text, seq)
  \/ AddMessageCreated(t)
  \/ AddMessagePushed(t)
  \/ \E c \in 1..MaxChats, m \in 1..MaxMsgs : RemoveMessageStart(t, n, c, m, seq)
  \/ RemoveMessageDeleted(t)
  \/ \E c \in 1..MaxChats, m \in 1..MaxMsgs, text \in Texts :
       EditMessageStart(t, n, c, m, text, seq)
  \/ EditMessageUpdated(t)

\* The life of users and chats, calls running one at a time, each to its end;
\* the states at a call's suspension points are states of the model
Next ==
  \/ \E r \in 1..Len(Requests) : AddToWaitingList(r, TRUE)
  \/ \E t \in Slots :
       \/ PairingOps(t, 1, MaxChats, TRUE)
       \/ \E a, b \in Keyset : CreateChatDirect(t, 1, a, b, TRUE)
       \/ ClosingOps(t, 1, TRUE)
       \/ StoreStep(t)
       \/ Retire(t)

Spec == Init /\ [][Next]_vars

\* The references addToWaitingList gives its objects
Refs == 1..(MaxJoins * Len(Requests))

\* The same life with the callers' own calls of the exported helpers, the
\* store answering every request
HelperOps(t, n, seq) ==
  \/ \E id \in Keyset : DelWaitingUser(id, seq)
  \/ \E ref \in Refs : AddActiveUser(ref, seq)
  \/ \E ref \in Refs : DelActiveUserStart(t, n, ref, seq)
  \/ DelActiveUserDeleted(t)

CallerNext ==
  \/ \E r \in 1..Len(Requests) : AddToWaitingList(r, TRUE)
  \/ \E t \in Slots :
       \/ PairingOps(t, 1, MaxChats, TRUE)
       \/ \E a, b \in Keyset : CreateChatDirect(t, 1, a, b, TRUE)
       \/ ClosingOps(t, 1, TRUE)
       \/ HelperOps(t, 1, TRUE)
       \/ StoreOk(t)
       \/ Retire(t)

CallerSpec == Init /\ [][CallerNext]_vars

\* The life of the messages of a chat, calls running one at a time
MsgNext ==
  \/ \E r \in 1..Len(Requests) : AddToWaitingList(r, TRUE)
  \/ \E t \in Slots :
       \/ PairingOps(t, 1, MsgChats, TRUE)
       \/ ClosingOps(t, 1, TRUE)
       \/ MessageOps(t, 1, TRUE)
       \/ StoreStep(t)
       \/ Retire(t)

MsgSpec == Init /\ [][MsgNext]_vars

\* The waiting list alone: users join and callers take pairs from it
PairNext ==
  \/ \E r \in 1..Len(Requests) : AddToWaitingList(r, FALSE)
  \/ \E t \in Slots : getRandomPairFromWaitingList(t, MaxTasks, FALSE)

PairSpec == Init /\ [][PairNext]_vars

\* Calls on one chat that overlap.  Two users join, are paired and get their
\* chat, one call at a time; then closeChat, addMessage, removeMessage and
\* editMessage calls on that chat start while others are suspended, and the
\* store answers each request with success, in any order.
RaceRequests == {1, 3}
RaceChat == 1
RaceSender == "l1"

RaceOps(t) ==
  \/ CloseChatStart(t, MaxTasks, RaceChat, FALSE)
  \/ CloseChatLookup(t)
  \/ CloseChatMembers(t)
  \/ CloseChatCount(t)
  \/ CloseChatInactive(t)
  \/ \E text \in Texts : AddMessageStart(t, MaxTasks, RaceChat, RaceSender, text, FALSE)
  \/ AddMessageCreated(t)
  \/ AddMessagePushed(t)
  \/ \E m \in 1..MaxMsgs : RemoveMessageStart(t, MaxTasks, RaceChat, m, FALSE)
  \/ RemoveMessageDeleted(t)
  \/ \E m \in 1..MaxMsgs, text \in Texts :
       EditMessageStart(t, MaxTasks, RaceChat, m, text, FALSE)
  \/ EditMessageUpdated(t)

RaceNext ==
  \/ \E r \in RaceRequests : AddToWaitingList(r, TRUE)
  \/ \E t \in Slots :
       \/ PairingOps(t, 1, MsgChats, TRUE)
       \/ RaceOps(t)
       \/ StoreOk(t)
       \/ Retire(t)

RaceSpec == Init /\ [][RaceNext]_vars

\* The life of users, chats and messages across a restart: calls run one at
\* a time, the store answers every request with success, and the caller
\* takes a pair only when getWaitingUserLen() says two users wait
LifeSenders == {"l1", "l2"}

\* A find of init() rejects
InitFindRejects(t) ==
  /\ tasks[t].op = "init"
  /\ StoreReply(t, FALSE)

\* The caller's check before pairing: getWaitingUserLen() > 1
TakePair(t, n, seq) ==
  /\ getWaitingUserLen >= 2
  /\ getRandomPairFromWaitingList(t, n, seq)

LifeNext ==
  \/ \E r \in 1..Len(Requests) : AddToWaitingList(r, TRUE)
  \/ \E t \in Slots :
       \/ TakePair(t, 1, TRUE)
       \/ CreateChatPaired(t, MaxChats, TRUE)
       \/ CreateChatUser(t)
       \/ CreateChatChat(t)
       \/ ClosingOps(t, 1, TRUE)
       \/ \E c \in 1..MaxChats, sender \in LifeSenders, text \in Texts :
            AddMessageStart(t, 1, c, sender, text, TRUE)
       \/ AddMessageCreated(t)
       \/ AddMessagePushed(t)
       \/ InitOps(t, 1, TRUE)
       \/ InitFindRejects(t)
       \/ StoreOk(t)
       \/ Retire(t)

LifeSpec == Init /\ [][LifeNext]_vars

\* The users that join: the two of the chat and one more
BootRequests == RaceRequests \cup {Len(Requests)}

\* Calls of two users on one chat, made one at a time while init() is
\* suspended as well as before and after it
BootNext ==
  \/ \E r \in BootRequests : AddToWaitingList(r, TRUE)
  \/ \E t \in Slots :
       \/ TakePair(t, MaxTasks, TRUE)
       \/ CreateChatPaired(t, MsgChats, TRUE)
       \/ CreateChatUser(t)
       \/ CreateChatChat(t)
       \/ ClosingOps(t, MaxTasks, TRUE)
       \/ \E text \in Texts :
            AddMessageStart(t, MaxTasks, RaceChat, RaceSender, text, TRUE)
       \/ AddMessageCreated(t)
       \/ AddMessagePushed(t)
       \/ InitOps(t, MaxTasks, TRUE)
       \/ StoreOk(t)
       \/ Retire(t)

BootSpec == Init /\ [][BootNext]_vars

\* ------------------------------------------------------------- claims
\* The calls that have ended and whose result the caller has not taken yet
Ended(op) == {t \in Slots : tasks[t].pc = "done" /\ tasks[t].op = op}

\* user.emailOrLoginId of the users of a call
IdOf(ref) == emailOrLoginId(objs[ref])

\* A createChat call on two users the caller took from the waiting list, in
\* which no store call failed
PairedOk(t) ==
  /\ t \in Ended("createChat")
  /\ tasks[t].via = "pair"
  /\ \A j \in 1..2 : tasks[t].users[j] # NoId
  /\ ~tasks[t].failed

\* C1: createChat([u1, u2]) on two users taken from the waiting pool, every
\* store call succeeding, returns the chat and ends with both users keys of
\* the active map, each with chatIds holding just the new chat id and
\* currentChatId equal to it, and the chats map holding the chat under that
\* id with exactly the two users' derived ids as members.
C1_CreateChatPromotes ==
  \A t \in Slots : PairedOk(t) =>
    LET rec == tasks[t]
    IN /\ rec.result = "chat"
       /\ \A j \in 1..2 :
            /\ IdOf(rec.users[j]) \in DOMAIN active_users
            /\ active_users[IdOf(rec.users[j])] = rec.users[j]
            /\ objs[rec.users[j]].chatIds = <<rec.chatId>>
            /\ objs[rec.users[j]].currentChatId = rec.chatId
       /\ rec.chatId \in DOMAIN chats
       /\ chats[rec.chatId].userIds = <<IdOf(rec.users[1]), IdOf(rec.users[2])>>

C1_Witness == \E t \in Slots : PairedOk(t) /\ tasks[t].result = "chat"

\* The members of the chat a closeChat call was made on, as cached when the
\* call started
MembersBefore(rec) ==
  IF rec.chatId \in DOMAIN rec.pre.chats
  THEN {rec.pre.chats[rec.chatId].userIds[j] :
          j \in 1..Len(rec.pre.chats[rec.chatId].userIds)}
  ELSE {}

\* The chat ids of member m when the call started; <<>> when m was not active
ChatIdsBefore(rec, m) ==
  IF m \in DOMAIN rec.pre.active_users
  THEN rec.pre.objs[rec.pre.active_users[m]].chatIds
  ELSE <<>>

\* A closeChat call on a cached chat that was the only chat of each of its
\* members, in which no store call failed
OnlyChatClosed(t) ==
  /\ t \in Ended("closeChat")
  /\ tasks[t].chatId \in DOMAIN tasks[t].pre.chats
  /\ \A m \in MembersBefore(tasks[t]) :
       ChatIdsBefore(tasks[t], m) = <<tasks[t].chatId>>
  /\ ~tasks[t].failed

\* C2: closeChat(id) on a cached chat that is the only chat of every member
\* returns a list holding exactly the members' derived ids, each once, and
\* afterwards no member is a key of the active map and id is not a key of
\* the chats map.
C2_CloseChatDeactivates ==
  \A t \in Slots : OnlyChatClosed(t) =>
    LET rec == tasks[t]
        il == rec.inactiveList
    IN /\ rec.result = "list"
       /\ {il[j] : j \in 1..Len(il)} = MembersBefore(rec)
       /\ Len(il) = Cardinality(MembersBefore(rec))
       /\ \A m \in MembersBefore(rec) : m \notin DOMAIN active_users
       /\ rec.chatId \notin DOMAIN chats

C2_Witness ==
  \E t \in Slots : OnlyChatClosed(t) /\ Len(tasks[t].inactiveList) = 2

\* Member m of the chat being closed had another chat id in its list
HadOtherChat(rec, m) ==
  \E j \in 1..Len(ChatIdsBefore(rec, m)) : ChatIdsBefore(rec, m)[j] # rec.chatId

\* C3: closeChat(id) on a cached chat leaves every member whose chatIds list
\* still holds another chat id in the active map, at each step of the call,
\* and the inactive list it returns does not hold that member's derived id.
C3_CloseChatKeepsBusyMember ==
  \A t \in Slots :
    (tasks[t].op = "closeChat" /\ tasks[t].pc # "idle") =>
      \A m \in MembersBefore(tasks[t]) : HadOtherChat(tasks[t], m) =>
        /\ m \in DOMAIN active_users
        /\ ~Includes(tasks[t].inactiveList, m)

C3_Witness ==
  \E t \in Ended("closeChat") :
    /\ tasks[t].result = "list"
    /\ \E m \in MembersBefore(tasks[t]) : HadOtherChat(tasks[t], m)
    /\ \E m \in MembersBefore(tasks[t]) : Includes(tasks[t].inactiveList, m)

\* Slot t takes a pair from a waiting pool of at least two users
Picks(t) ==
  /\ tasks[t].pc = "idle"
  /\ tasks'[t].pc = "picked"
  /\ Cardinality(DOMAIN waiting_users) >= 2

\* C4: on a waiting pool of at least two users, getRandomPairFromWaitingList
\* returns two distinct users that were both in the pool, both are gone from
\* the pool afterwards, no other waiting user is removed, and the pool has
\* exactly two users fewer, whichever indices are drawn.
C4_PickRandomPair ==
  [][\A t \in Slots : Picks(t) =>
       LET pair == tasks'[t].users
           gone == {k \in DOMAIN waiting_users :
                      \E j \in 1..Len(pair) : waiting_users[k] = pair[j]}
       IN /\ Len(pair) = 2
          /\ pair[1] # NoId /\ pair[2] # NoId
          /\ pair[1] # pair[2]
          /\ IdOf(pair[1]) # IdOf(pair[2])
          /\ \A j \in 1..2 : \E k \in DOMAIN waiting_users : waiting_users[k] = pair[j]
          /\ DOMAIN waiting_users' = (DOMAIN waiting_users) \ gone
          /\ \A k \in DOMAIN waiting_users' : waiting_users'[k] = waiting_users[k]
          /\ Cardinality(DOMAIN waiting_users') = Cardinality(DOMAIN waiting_users) - 2
    ]_vars

C4_Witness ==
  \E t \in Slots :
    /\ tasks[t].pc = "picked"
    /\ tasks[t].users[1] # NoId /\ tasks[t].users[2] # NoId
    /\ DOMAIN waiting_users # {}

\* Slot t starts an addMessage call whose sender getActiveUser does not find
\* or whose chat is not cached
AddsUnknown(t) ==
  /\ tasks[t].pc = "idle"
  /\ tasks'[t].op = "addMessage"
  /\ \/ getActiveUser(tasks'[t].senderId) = NoId
     \/ tasks'[t].chatId \notin DOMAIN chats

\* C5: addMessage whose sender is not found among the active users, or whose
\* chatId is not a key of the chats map, returns null at once: it suspends on
\* no store request, no store collection changes, and the three cache maps
\* and the user objects are unchanged.
C5_AddMessageNotFound ==
  [][\A t \in Slots : AddsUnknown(t) =>
       /\ tasks'[t].pc = "done"
       /\ tasks'[t].result = "null"
       /\ ~tasks'[t].pending
       /\ cache' = cache
       /\ store' = store
       /\ n_msgs' = n_msgs
    ]_vars

C5_Witness ==
  \E t \in Ended("addMessage") :
    /\ tasks[t].result = "null"
    /\ tasks[t].chatId \in DOMAIN chats
    /\ getActiveUser(tasks[t].senderId) = NoId
    /\ active_users # Empty

\* C6: an editMessage call that reports failure leaves the message map of
\* every cached chat as it was when the call started; a call on a chat that
\* is not cached, on an id the chat does not hold, or whose store update
\* fails reports failure; the cache differs only after a store update that
\* succeeded.
C6_EditMessageFailure ==
  \A t \in Ended("editMessage") :
    LET rec == tasks[t]
        known == /\ rec.chatId \in DOMAIN rec.pre.chats
                 /\ rec.msgId \in DOMAIN rec.pre.chats[rec.chatId].messages
    IN /\ rec.result = "false" => chats = rec.pre.chats
       /\ (~known \/ rec.failed) => rec.result = "false"
       /\ chats # rec.pre.chats => (rec.ok /\ ~rec.failed /\ rec.result = "true")

C6_Witness ==
  \E t \in Ended("editMessage") :
    /\ tasks[t].failed
    /\ tasks[t].result = "false"
    /\ tasks[t].text # chats[tasks[t].chatId].messages[tasks[t].msgId].message

\* A removeMessage call that repeats one that returned true, on a chat still
\* cached, with the store delete succeeding
RemovedAgain(t) ==
  /\ t \in Ended("removeMessage")
  /\ <<tasks[t].chatId, tasks[t].msgId>> \in removed
  /\ tasks[t].chatId \in DOMAIN tasks[t].pre.chats
  /\ ~tasks[t].failed

\* C7: removeMessage(chatId, messageId) called again after it returned true,
\* on the same cached chat and with the store succeeding, returns true again
\* and leaves the chat's message map as the first call left it: the id
\* absent, every other message untouched.
C7_RemoveMessageIdempotent ==
  \A t \in Slots : RemovedAgain(t) =>
    LET rec == tasks[t]
    IN /\ rec.result = "true"
       /\ rec.chatId \in DOMAIN chats
       /\ chats[rec.chatId].messages = rec.pre.chats[rec.chatId].messages
       /\ rec.msgId \notin DOMAIN chats[rec.chatId].messages

C7_Witness == \E t \in Slots : RemovedAgain(t) /\ tasks[t].result = "true"

\* A createChat call on two users from the waiting list that has not ended
PairBeingCreated(t) ==
  /\ tasks[t].op = "createChat"
  /\ tasks[t].via = "pair"
  /\ tasks[t].pc \in {"cc_user", "cc_chat"}
  /\ \A j \in 1..Len(tasks[t].users) : tasks[t].users[j] # NoId

\* C8: no derived id is a key of the waiting map and of the active map at
\* once, and a user taken from the waiting pool is a key of one of them while
\* its chat is being created.
C8_ExactlyOneMap ==
  /\ (DOMAIN waiting_users) \cap (DOMAIN active_users) = {}
  /\ \A t \in Slots : PairBeingCreated(t) =>
       \A j \in 1..Len(tasks[t].users) :
         IdOf(tasks[t].users[j]) \in (DOMAIN waiting_users) \cup (DOMAIN active_users)

\* C9: every derived id in the member list of every chat of the chats map is
\* a key of the active map.
C9_MembersActive ==
  \A c \in DOMAIN chats :
    \A j \in 1..Len(chats[c].userIds) : chats[c].userIds[j] \in DOMAIN active_users

\* C10: after a createChat call in which a store write failed, no user of the
\* call has been added to the active map, and none has currentChatId or a
\* chatIds entry equal to the id of the chat that was never cached.
C10_NoHalfRegisteredChat ==
  \A t \in Ended("createChat") : tasks[t].failed =>
    \A j \in 1..Len(tasks[t].users) :
      LET ref == tasks[t].users[j]
      IN ref # NoId =>
           /\ (IdOf(ref) \in DOMAIN active_users /\ active_users[IdOf(ref)] = ref)
                => (IdOf(ref) \in DOMAIN tasks[t].pre.active_users
                    /\ tasks[t].pre.active_users[IdOf(ref)] = ref)
           /\ objs[ref].currentChatId # tasks[t].chatId
           /\ ~Includes(objs[ref].chatIds, tasks[t].chatId)

\* No call is suspended on the store or between two of its steps
Quiet == \A t \in Slots : tasks[t].pc \in {"idle", "picked", "done"}

\* C11: whatever the interleaving of a closeChat(c) call with addMessage
\* calls on c, once closeChat(c) has returned its list and no call is in
\* flight, the store holds no message record that was created for chat c.
C11_CascadeDelete ==
  \A t \in Ended("closeChat") :
    (Quiet /\ tasks[t].result = "list") =>
      \A m \in DOMAIN store_msgs : store_msgs[m].chat # tasks[t].chatId

\* C15: with the store never failing, every closeChat, addMessage,
\* removeMessage and editMessage call on a chat ends by returning a value,
\* however the calls interleave: none ends in a fault because another call
\* removed the chat entry or a member's active-user entry while it was
\* suspended.
C15_NoUncontrolledFault ==
  \A t \in Slots :
    tasks[t].op \in {"closeChat", "addMessage", "removeMessage", "editMessage"}
      => tasks[t].result # "threw"

\* Every slot holds an editMessage call on message m of chat c that has
\* returned true
AllEdited(c, m) ==
  \A t \in Slots :
    /\ t \in Ended("editMessage")
    /\ tasks[t].chatId = c /\ tasks[t].msgId = m
    /\ tasks[t].result = "true"

\* C20: once two or more editMessage calls on the same message of a cached
\* chat have all returned, the store having applied their updates, the text
\* of the cached message equals the text of the store record.
C20_TextAgrees ==
  \A c \in DOMAIN chats : \A m \in DOMAIN chats[c].messages :
    (AllEdited(c, m) /\ m \in DOMAIN store_msgs) =>
      chats[c].messages[m].message = store_msgs[m].message

\* C12: a closeChat call on a cached chat in which a store delete failed (of
\* the chat record, of the messages or of a member's user record) ends with
\* the chat no longer a key of the chats map and with no member whose only
\* chat it was left in the active map.
C12_CloseChatEvictsOnFailure ==
  \A t \in Ended("closeChat") :
    (tasks[t].failed /\ tasks[t].chatId \in DOMAIN tasks[t].pre.chats) =>
      /\ tasks[t].chatId \notin DOMAIN chats
      /\ \A m \in MembersBefore(tasks[t]) :
           ChatIdsBefore(tasks[t], m) = <<tasks[t].chatId>>
             => m \notin DOMAIN active_users

\* C13: addToWaitingList for a derived id that is already a key of the
\* waiting map never replaces the waiting record: the key keeps the object
\* it had, and the object its connections, chatIds and currentChatId.
C13_AddToWaitingListKeeps ==
  [][\A k \in (DOMAIN waiting_users) \cap (DOMAIN waiting_users') :
       /\ waiting_users'[k] = waiting_users[k]
       /\ objs'[waiting_users[k]] = objs[waiting_users[k]]
    ]_vars

\* Chat c is cached and lists derived id k among its members
MemberOf(k, c) ==
  /\ c \in DOMAIN chats
  /\ Includes(chats[c].userIds, k)

\* C16: in every state, the suspension points of createChat and closeChat
\* included, every chat id in the chatIds of a user of the active map, and
\* the user's currentChatId when it is not null, is a key of the chats map
\* whose member list holds the user's derived id.
C16_NoHalfAppliedChat ==
  \A k \in DOMAIN active_users :
    LET u == objs[active_users[k]]
    IN /\ \A j \in 1..Len(u.chatIds) : MemberOf(k, u.chatIds[j])
       /\ u.currentChatId # NoId => MemberOf(k, u.currentChatId)

\* C17: the store holds at most one user record per derived id, and when no
\* call is in flight it holds no record for a derived id that is not a key
\* of the active map.
C17_OneUserRecord ==
  /\ \A a, b \in DOMAIN store_users :
       emailOrLoginId(store_users[a]) = emailOrLoginId(store_users[b]) => a = b
  /\ Quiet =>
       \A a \in DOMAIN store_users :
         emailOrLoginId(store_users[a]) \in DOMAIN active_users

\* Slot t takes a pair from a waiting pool of fewer than two users
PicksShort(t) ==
  /\ tasks[t].pc = "idle"
  /\ tasks'[t].op = "pair"
  /\ Cardinality(DOMAIN waiting_users) < 2

\* C19: getRandomPairFromWaitingList on a waiting pool of zero or one user
\* fails instead of returning a pair: the caller gets no list holding an
\* undefined user, and the waiting map is left as it was.
C19_PickNeedsTwo ==
  [][\A t \in Slots : PicksShort(t) =>
       /\ tasks'[t].result = "threw"
       /\ \A j \in 1..Len(tasks'[t].users) : tasks'[t].users[j] # NoId
       /\ waiting_users' = waiting_users
    ]_vars

\* init() has run on the store as it is now
Booted == \E t \in Ended("init") : tasks[t].result # "threw"

\* The persisted chats whose member list holds user record u
ChatsOfRecord(u) ==
  {c \in DOMAIN store_chats : Includes(store_chats[c].users, u)}

\* The message records created for chat c
MessagesOfChat(c) == {m \in DOMAIN store_msgs : store_msgs[m].chat = c}

\* C14: when the sender of every persisted message resolves, init() leaves a
\* chats map with one entry per persisted chat, keyed by its id, whose member
\* list is the members' derived ids and whose message map holds exactly the
\* chat's persisted messages, each under its id and with its sender's
\* derived id; and an active map with one entry per persisted user record,
\* whose chatIds are the ids of the persisted chats that record is a member
\* of.
C14_BootstrapRoundTrip ==
  (Booted /\ \A m \in DOMAIN store_msgs : store_msgs[m].sender \in DOMAIN store_users) =>
    /\ DOMAIN chats = DOMAIN store_chats
    /\ \A c \in DOMAIN store_chats :
         /\ Len(chats[c].userIds) = Len(store_chats[c].users)
         /\ \A j \in 1..Len(store_chats[c].users) :
              /\ store_chats[c].users[j] \in DOMAIN store_users
              /\ chats[c].userIds[j] =
                   emailOrLoginId(store_users[store_chats[c].users[j]])
         /\ DOMAIN chats[c].messages = MessagesOfChat(c)
         /\ \A m \in MessagesOfChat(c) :
              /\ chats[c].messages[m].message = store_msgs[m].message
              /\ chats[c].messages[m].senderId =
                   emailOrLoginId(store_users[store_msgs[m].sender])
    /\ Cardinality(DOMAIN active_users) = Cardinality(DOMAIN store_users)
    /\ \A u \in DOMAIN store_users :
         LET k == emailOrLoginId(store_users[u])
         IN /\ k \in DOMAIN active_users
            /\ LET ids == objs[active_users[k]].chatIds
               IN {ids[j] : j \in 1..Len(ids)} = ChatsOfRecord(u)

\* The persisted chats that hold a message whose sender record is gone
Orphaned ==
  {c \in DOMAIN store_chats :
     \E m \in MessagesOfChat(c) : store_msgs[m].sender \notin DOMAIN store_users}

\* C18: when init() meets a message whose sender does not resolve, every
\* persisted chat other than the chats with such a message is still in the
\* chats map, and every persisted user is still in the active map.
C18_BootstrapAbortScope ==
  (Booted /\ Orphaned # {}) =>
    /\ \A c \in (DOMAIN store_chats) \ Orphaned : c \in DOMAIN chats
    /\ \A u \in DOMAIN store_users :
         emailOrLoginId(store_users[u]) \in DOMAIN active_users

====
